---- MODULE Spec2Model ----
(***************************************************************************)
(* A model of chanxuehong/lrucache: a fixed size LRU cache made of a       *)
(* container/list recency list (lruList), an index from key to list        *)
(* element (itemMap) and a capacity (size), all guarded by one mutex.      *)
(*                                                                         *)
(* A *list.Element is modelled by a positive integer handle; the payload   *)
(* an element points to is payload[handle].  lruList is the sequence of    *)
(* the handles from front to back.  An element that is unlinked from the   *)
(* list is garbage: its handle and payload are dropped.                    *)
(*                                                                         *)
(* Every public method holds the mutex from its first to its last          *)
(* statement, so a call is one step.  The repository holds three copies    *)
(* of the cache that differ in names and declared types only; the model    *)
(* follows lru_cache.go.                                                   *)
(***************************************************************************)
EXTENDS Integers, Sequences, FiniteSets, TLC

\* ------------------------------------------------------------- bounds
NumKeys == 3
NumValues == 2
MaxSize == 2
NumCallers == 2

Keys == 1..NumKeys
Values == 1..NumValues
\* the sizes handed to New and SetSize: negative, zero and positive ones
SizeArgs == (0 - 1)..MaxSize
\* the goroutines that call the methods of one cache
Callers == 1..NumCallers

\* Go's nil: the nil *list.Element, the nil interface{} value
Nil == 0
NoErr == "nil"
ErrNotFound == "item not found"
ErrNotStored == "item not stored"

VARIABLES
    size,       \* Cache.size
    lruList,    \* Cache.lruList: element handles, front first
    payload,    \* handle -> [Key, Value], the *payload of each linked element
    itemMap,    \* Cache.itemMap: key -> element handle
    panicked,   \* a call has panicked (New with size <= 0)
    last,       \* the last call: its name, arguments and results
    pre,        \* what the cache held when the last call began
    touchSeq,   \* history: the keys in order of their last touch, latest first
    shadow,     \* a second cache, whose add allocates instead of reusing the tail
    mutex,      \* Cache.mutex: the caller that holds it, Nil when it is free
    frame,      \* caller -> where it is in its call, its arguments and locals
    lin         \* history: the cache as the last Unlock left it

vars == <<size, lruList, payload, itemMap, panicked, last, pre, touchSeq,
          shadow, mutex, frame, lin>>

\* Spec records each call in last and pre and leaves the history alone;
\* SpecHist keeps the history of touches and leaves last and pre alone;
\* SpecPair runs the second cache beside the first; SpecConc runs the
\* methods statement by statement for several callers.
calls == <<last, pre>>
callers == <<mutex, frame, lin>>

\* ------------------------------------------------- maps and container/list
Range(s) == {s[i] : i \in DOMAIN s}

MapDelete(m, k) == [x \in DOMAIN m \ {k} |-> m[x]]

MapPut(m, k, v) == [x \in DOMAIN m \cup {k} |-> IF x = k THEN v ELSE m[x]]

\* list.New()
ListNew == <<>>

\* l.Back(): the last element, nil for an empty list
Back(l) == IF Len(l) = 0 THEN Nil ELSE l[Len(l)]

\* l.PushFront(v) links a newly allocated element at the front
PushFront(l, e) == <<e>> \o l

\* l.MoveToFront(e): nothing when e is not an element of l
MoveToFront(l, e) ==
    IF e \in Range(l) THEN <<e>> \o SelectSeq(l, LAMBDA x : x # e) ELSE l

\* l.Remove(e): nothing when e is not an element of l
ListRemove(l, e) == SelectSeq(l, LAMBDA x : x # e)

\* the element a PushFront allocates: one that is not linked in the list
NewElement(l) == CHOOSE h \in 1..(Len(l) + 1) : h \notin Range(l)

\* ------------------------------------------------------------ the cache
\* the Cache object as a value
Cache == [size |-> size, lruList |-> lruList, payload |-> payload, itemMap |-> itemMap]

\* what a call returns: the cache after it, the value, the error, the count
Result(c, v, e, n) == [cache |-> c, value |-> v, err |-> e, n |-> n]

\* New with the guard written size < 0
New_zero(n) ==
    IF n < 0
    THEN [panic |-> TRUE,
          cache |-> [size |-> 0, lruList |-> ListNew, payload |-> <<>>, itemMap |-> <<>>]]
    ELSE [panic |-> FALSE,
          cache |-> [size |-> n, lruList |-> ListNew, payload |-> <<>>, itemMap |-> <<>>]]

\* New(size): panics when size <= 0 and no cache is made, else an empty cache
New(n) ==
    IF n <= 0
    THEN [panic |-> TRUE,
          cache |-> [size |-> 0, lruList |-> ListNew, payload |-> <<>>, itemMap |-> <<>>]]
    ELSE [panic |-> FALSE,
          cache |-> [size |-> n, lruList |-> ListNew, payload |-> <<>>, itemMap |-> <<>>]]

\* Cache.add with the capacity test written > instead of >=
add_gt(c, key, value) ==
    IF Len(c.lruList) > c.size
    THEN LET e == Back(c.lruList) IN
         [c EXCEPT !.itemMap = MapPut(MapDelete(@, c.payload[e].Key), key, e),
                   !.payload = [@ EXCEPT ![e] = [Key |-> key, Value |-> value]],
                   !.lruList = MoveToFront(@, e)]
    ELSE LET e == NewElement(c.lruList) IN
         [c EXCEPT !.itemMap = MapPut(@, key, e),
                   !.payload = MapPut(@, e, [Key |-> key, Value |-> value]),
                   !.lruList = PushFront(@, e)]

\* Cache.add reusing the front element instead of the back one
add_front(c, key, value) ==
    IF Len(c.lruList) >= c.size
    THEN LET e == Head(c.lruList) IN
         [c EXCEPT !.itemMap = MapPut(MapDelete(@, c.payload[e].Key), key, e),
                   !.payload = [@ EXCEPT ![e] = [Key |-> key, Value |-> value]],
                   !.lruList = MoveToFront(@, e)]
    ELSE LET e == NewElement(c.lruList) IN
         [c EXCEPT !.itemMap = MapPut(@, key, e),
                   !.payload = MapPut(@, e, [Key |-> key, Value |-> value]),
                   !.lruList = PushFront(@, e)]

\* Cache.add without the delete of the reused element's old key
add_keep_old(c, key, value) ==
    IF Len(c.lruList) >= c.size
    THEN LET e == Back(c.lruList) IN
         [c EXCEPT !.itemMap = MapPut(@, key, e),
                   !.payload = [@ EXCEPT ![e] = [Key |-> key, Value |-> value]],
                   !.lruList = MoveToFront(@, e)]
    ELSE LET e == NewElement(c.lruList) IN
         [c EXCEPT !.itemMap = MapPut(@, key, e),
                   !.payload = MapPut(@, e, [Key |-> key, Value |-> value]),
                   !.lruList = PushFront(@, e)]

\* Cache.add whose reused element keeps the value of the evicted entry
add_stale_value(c, key, value) ==
    IF Len(c.lruList) >= c.size
    THEN LET e == Back(c.lruList) IN
         [c EXCEPT !.itemMap = MapPut(MapDelete(@, c.payload[e].Key), key, e),
                   !.payload = [@ EXCEPT ![e].Key = key],
                   !.lruList = MoveToFront(@, e)]
    ELSE LET e == NewElement(c.lruList) IN
         [c EXCEPT !.itemMap = MapPut(@, key, e),
                   !.payload = MapPut(@, e, [Key |-> key, Value |-> value]),
                   !.lruList = PushFront(@, e)]

\* Cache.remove unlinking the back element instead of e
remove_back(c, e) ==
    [c EXCEPT !.itemMap = MapDelete(@, c.payload[e].Key),
              !.lruList = ListRemove(@, Back(c.lruList)),
              !.payload = MapDelete(@, Back(c.lruList))]

\* Cache.remove(e): delete(itemMap, e.Value.Key); lruList.Remove(e)
remove(c, e) ==
    [c EXCEPT !.itemMap = MapDelete(@, c.payload[e].Key),
              !.lruList = ListRemove(@, e),
              !.payload = MapDelete(@, e)]

\* Cache.add(key, value): reuse the back element when full, else push a new one
add(c, key, value) ==
    IF Len(c.lruList) >= c.size
    THEN LET e == Back(c.lruList) IN
         [c EXCEPT !.itemMap = MapPut(MapDelete(@, c.payload[e].Key), key, e),
                   !.payload = [@ EXCEPT ![e] = [Key |-> key, Value |-> value]],
                   !.lruList = MoveToFront(@, e)]
    ELSE LET e == NewElement(c.lruList) IN
         [c EXCEPT !.itemMap = MapPut(@, key, e),
                   !.payload = MapPut(@, e, [Key |-> key, Value |-> value]),
                   !.lruList = PushFront(@, e)]

\* Cache.Size()
Size(c) == Result(c, Nil, NoErr, c.size)

\* Cache.Len()
CacheLen(c) == Result(c, Nil, NoErr, Len(c.lruList))

\* the loop of SetSize taking the front element instead of the back one
RECURSIVE evictBack_front(_, _)
evictBack_front(c, i) ==
    IF i > 0 THEN evictBack_front(remove(c, Head(c.lruList)), i - 1) ELSE c

\* the loop of SetSize: i times, remove the back element
RECURSIVE evictBack(_, _)
evictBack(c, i) ==
    IF i > 0 THEN evictBack(remove(c, Back(c.lruList)), i - 1) ELSE c

\* Cache.SetSize with the guard written size < 0
SetSize_neg(c, n) ==
    IF n < 0
    THEN Result(c, Nil, NoErr, 0)
    ELSE LET over == Len(c.lruList) - n
             d == IF over > 0 THEN evictBack(c, over) ELSE c
         IN Result([d EXCEPT !.size = n], Nil, NoErr, 0)

\* Cache.SetSize(size)
SetSize(c, n) ==
    IF n <= 0
    THEN Result(c, Nil, NoErr, 0)
    ELSE LET over == Len(c.lruList) - n
             d == IF over > 0 THEN evictBack(c, over) ELSE c
         IN Result([d EXCEPT !.size = n], Nil, NoErr, 0)

\* Cache.Purge making a new index and keeping the old list
Purge_keep_list(c) ==
    Result([c EXCEPT !.itemMap = <<>>], Nil, NoErr, 0)

\* Cache.Purge()
Purge(c) ==
    Result([c EXCEPT !.lruList = ListNew, !.payload = <<>>, !.itemMap = <<>>],
           Nil, NoErr, 0)

\* Cache.Add touching the key it finds before it returns ErrNotStored
Add_touch(c, key, value) ==
    IF key \in DOMAIN c.itemMap
    THEN Result([c EXCEPT !.lruList = MoveToFront(@, c.itemMap[key])],
                Nil, ErrNotStored, 0)
    ELSE Result(add(c, key, value), Nil, NoErr, 0)

\* Cache.Add storing the value when the key is there already
Add_overwrite(c, key, value) ==
    IF key \in DOMAIN c.itemMap
    THEN LET e == c.itemMap[key] IN
         Result([c EXCEPT !.payload = [@ EXCEPT ![e].Value = value]],
                Nil, NoErr, 0)
    ELSE Result(add(c, key, value), Nil, NoErr, 0)

\* Cache.Add(key, value)
Add(c, key, value) ==
    IF key \in DOMAIN c.itemMap
    THEN Result(c, Nil, ErrNotStored, 0)
    ELSE Result(add(c, key, value), Nil, NoErr, 0)

\* Cache.Set without the MoveToFront of the element it finds
Set_no_touch(c, key, value) ==
    IF key \in DOMAIN c.itemMap
    THEN LET e == c.itemMap[key] IN
         Result([c EXCEPT !.payload = [@ EXCEPT ![e].Value = value]],
                Nil, NoErr, 0)
    ELSE Result(add(c, key, value), Nil, NoErr, 0)

\* Cache.Set without the assignment payload.Value = value
Set_no_overwrite(c, key, value) ==
    IF key \in DOMAIN c.itemMap
    THEN LET e == c.itemMap[key] IN
         Result([c EXCEPT !.lruList = MoveToFront(@, e)], Nil, NoErr, 0)
    ELSE Result(add(c, key, value), Nil, NoErr, 0)

\* Cache.Set(key, value)
Set(c, key, value) ==
    IF key \in DOMAIN c.itemMap
    THEN LET e == c.itemMap[key] IN
         Result([c EXCEPT !.payload = [@ EXCEPT ![e].Value = value],
                          !.lruList = MoveToFront(@, e)],
                Nil, NoErr, 0)
    ELSE Result(add(c, key, value), Nil, NoErr, 0)

\* Cache.Get without the MoveToFront
Get_no_touch(c, key) ==
    IF key \in DOMAIN c.itemMap
    THEN Result(c, c.payload[c.itemMap[key]].Value, NoErr, 0)
    ELSE Result(c, Nil, ErrNotFound, 0)

\* Cache.Get(key)
Get(c, key) ==
    IF key \in DOMAIN c.itemMap
    THEN LET e == c.itemMap[key] IN
         Result([c EXCEPT !.lruList = MoveToFront(@, e)],
                c.payload[e].Value, NoErr, 0)
    ELSE Result(c, Nil, ErrNotFound, 0)

\* Cache.Remove returning nil for a key that is not there
Remove_silent(c, key) ==
    IF key \in DOMAIN c.itemMap
    THEN Result(remove(c, c.itemMap[key]), Nil, NoErr, 0)
    ELSE Result(c, Nil, NoErr, 0)

\* Cache.Remove(key)
Remove(c, key) ==
    IF key \in DOMAIN c.itemMap
    THEN Result(remove(c, c.itemMap[key]), Nil, NoErr, 0)
    ELSE Result(c, Nil, ErrNotFound, 0)

\* ------------------------------------------------------ the observations
\* the entries of a cache from front to back, each a [Key, Value]
Entries(c) == [i \in 1..Len(c.lruList) |-> c.payload[c.lruList[i]]]

\* the keys of a sequence of entries, in its order
KeysOf(es) == [i \in 1..Len(es) |-> es[i].Key]

\* what the history keeps of the cache a call began with
Snapshot(c) == [size |-> c.size, entries |-> Entries(c), keys |-> DOMAIN c.itemMap]

Call(op, k, v, n, r) ==
    [op |-> op, key |-> k, value |-> v, arg |-> n,
     err |-> r.err, ret |-> r.value, n |-> r.n]

\* a touch moves the key to the front of the history
Touch(s, k) == <<k>> \o SelectSeq(s, LAMBDA x : x # k)

\* a caller that is in no call
IdleFrame ==
    [pc |-> "idle", op |-> "none", key |-> Nil, value |-> Nil, arg |-> 0,
     hit |-> FALSE, e |-> Nil, i |-> 0, err |-> NoErr, ret |-> Nil, n |-> 0]

\* --------------------------------------------------------------- actions
Install(c) ==
    /\ size' = c.size
    /\ lruList' = c.lruList
    /\ payload' = c.payload
    /\ itemMap' = c.itemMap

\* the call op(k, v, n) returned r: the cache is r.cache, the call is recorded
Return(op, k, v, n, r) ==
    /\ Install(r.cache)
    /\ last' = Call(op, k, v, n, r)
    /\ pre' = Snapshot(Cache)
    /\ UNCHANGED <<panicked, touchSeq, shadow, callers>>

\* the cache after New(n)
Constructed(n) ==
    /\ panicked = New(n).panic
    /\ size = New(n).cache.size
    /\ lruList = New(n).cache.lruList
    /\ payload = New(n).cache.payload
    /\ itemMap = New(n).cache.itemMap

\* no call is recorded
NoCalls ==
    /\ last = [op |-> "none", key |-> Nil, value |-> Nil, arg |-> 0,
               err |-> NoErr, ret |-> Nil, n |-> 0]
    /\ pre = [size |-> 0, entries |-> <<>>, keys |-> {}]

\* no caller is in a call and the mutex is free
NoCallers ==
    /\ mutex = Nil
    /\ frame = [p \in Callers |-> IdleFrame]
    /\ lin = New(0).cache

\* the state after New(n)
Init ==
    \E n \in SizeArgs :
        /\ Constructed(n)
        /\ last = [op |-> "New", key |-> Nil, value |-> Nil, arg |-> n,
                   err |-> NoErr, ret |-> Nil, n |-> 0]
        /\ pre = [size |-> 0, entries |-> <<>>, keys |-> {}]
        /\ touchSeq = <<>>
        /\ shadow = New(0).cache
        /\ NoCallers

DoSize ==
    /\ ~panicked
    /\ Return("Size", Nil, Nil, 0, Size(Cache))

DoLen ==
    /\ ~panicked
    /\ Return("Len", Nil, Nil, 0, CacheLen(Cache))

DoSetSize ==
    /\ ~panicked
    /\ \E n \in SizeArgs : Return("SetSize", Nil, Nil, n, SetSize(Cache, n))

DoPurge ==
    /\ ~panicked
    /\ Return("Purge", Nil, Nil, 0, Purge(Cache))

DoAdd ==
    /\ ~panicked
    /\ \E k \in Keys, v \in Values : Return("Add", k, v, 0, Add(Cache, k, v))

DoSet ==
    /\ ~panicked
    /\ \E k \in Keys, v \in Values : Return("Set", k, v, 0, Set(Cache, k, v))

DoGet ==
    /\ ~panicked
    /\ \E k \in Keys : Return("Get", k, Nil, 0, Get(Cache, k))

DoRemove ==
    /\ ~panicked
    /\ \E k \in Keys : Return("Remove", k, Nil, 0, Remove(Cache, k))

Next ==
    \/ DoSize
    \/ DoLen
    \/ DoSetSize
    \/ DoPurge
    \/ DoAdd
    \/ DoSet
    \/ DoGet
    \/ DoRemove

Spec == Init /\ [][Next]_vars

\* ------------------------------------------- the same calls, with history
\* the call returned r and the order of last touch is now t
Record(r, t) ==
    /\ Install(r.cache)
    /\ touchSeq' = t
    /\ UNCHANGED <<panicked, calls, shadow, callers>>

HistSize ==
    /\ ~panicked
    /\ Record(Size(Cache), touchSeq)

HistLen ==
    /\ ~panicked
    /\ Record(CacheLen(Cache), touchSeq)

HistSetSize ==
    /\ ~panicked
    /\ \E n \in SizeArgs : Record(SetSize(Cache, n), touchSeq)

HistPurge ==
    /\ ~panicked
    /\ Record(Purge(Cache), touchSeq)

HistAdd ==
    /\ ~panicked
    /\ \E k \in Keys, v \in Values :
        LET r == Add(Cache, k, v) IN
            Record(r, IF r.err = NoErr THEN Touch(touchSeq, k) ELSE touchSeq)

HistSet ==
    /\ ~panicked
    /\ \E k \in Keys, v \in Values :
        Record(Set(Cache, k, v), Touch(touchSeq, k))

HistGet ==
    /\ ~panicked
    /\ \E k \in Keys :
        LET r == Get(Cache, k) IN
            Record(r, IF r.err = NoErr THEN Touch(touchSeq, k) ELSE touchSeq)

HistRemove ==
    /\ ~panicked
    /\ \E k \in Keys : Record(Remove(Cache, k), touchSeq)

NextHist ==
    \/ HistSize
    \/ HistLen
    \/ HistSetSize
    \/ HistPurge
    \/ HistAdd
    \/ HistSet
    \/ HistGet
    \/ HistRemove

SpecHist == Init /\ [][NextHist]_vars

\* ------------------------------- the cache beside one that allocates
\* add that unlinks the tail element and pushes a newly allocated one
add_fresh(c, key, value) ==
    LET d == IF Len(c.lruList) >= c.size THEN remove(c, Back(c.lruList)) ELSE c
        e == NewElement(d.lruList)
    IN [d EXCEPT !.itemMap = MapPut(@, key, e),
                 !.payload = MapPut(@, e, [Key |-> key, Value |-> value]),
                 !.lruList = PushFront(@, e)]

\* Cache.Add over add_fresh
AddFresh(c, key, value) ==
    IF key \in DOMAIN c.itemMap
    THEN Result(c, Nil, ErrNotStored, 0)
    ELSE Result(add_fresh(c, key, value), Nil, NoErr, 0)

\* Cache.Set over add_fresh
SetFresh(c, key, value) ==
    IF key \in DOMAIN c.itemMap
    THEN LET e == c.itemMap[key] IN
         Result([c EXCEPT !.payload = [@ EXCEPT ![e].Value = value],
                          !.lruList = MoveToFront(@, e)],
                Nil, NoErr, 0)
    ELSE Result(add_fresh(c, key, value), Nil, NoErr, 0)

\* the same call returned r on the cache and s on the second cache
Both(r, s) ==
    /\ Install(r.cache)
    /\ shadow' = s.cache
    /\ UNCHANGED <<panicked, calls, touchSeq, callers>>

InitPair ==
    \E n \in SizeArgs :
        /\ Constructed(n)
        /\ NoCalls
        /\ touchSeq = <<>>
        /\ shadow = New(n).cache
        /\ NoCallers

PairSetSize ==
    /\ ~panicked
    /\ \E n \in SizeArgs : Both(SetSize(Cache, n), SetSize(shadow, n))

PairPurge ==
    /\ ~panicked
    /\ Both(Purge(Cache), Purge(shadow))

PairAdd ==
    /\ ~panicked
    /\ \E k \in Keys, v \in Values : Both(Add(Cache, k, v), AddFresh(shadow, k, v))

PairSet ==
    /\ ~panicked
    /\ \E k \in Keys, v \in Values : Both(Set(Cache, k, v), SetFresh(shadow, k, v))

PairGet ==
    /\ ~panicked
    /\ \E k \in Keys : Both(Get(Cache, k), Get(shadow, k))

PairRemove ==
    /\ ~panicked
    /\ \E k \in Keys : Both(Remove(Cache, k), Remove(shadow, k))

NextPair ==
    \/ PairSetSize
    \/ PairPurge
    \/ PairAdd
    \/ PairSet
    \/ PairGet
    \/ PairRemove

SpecPair == InitPair /\ [][NextPair]_vars

\* ------------------------------------------- callers sharing the cache
\* the calls a caller can make
CallSet ==
    {[op |-> o, key |-> Nil, value |-> Nil, arg |-> 0] : o \in {"Size", "Len", "Purge"}}
    \cup {[op |-> "SetSize", key |-> Nil, value |-> Nil, arg |-> n] : n \in SizeArgs}
    \cup {[op |-> o, key |-> k, value |-> Nil, arg |-> 0] :
            o \in {"Get", "Remove"}, k \in Keys}
    \cup {[op |-> o, key |-> k, value |-> v, arg |-> 0] :
            o \in {"Add", "Set"}, k \in Keys, v \in Values}

\* the call of frame f made alone on cache c
SeqOp(c, f) ==
    CASE f.op = "Size" -> Size(c)
      [] f.op = "Len" -> CacheLen(c)
      [] f.op = "SetSize" -> SetSize(c, f.arg)
      [] f.op = "Purge" -> Purge(c)
      [] f.op = "Add" -> Add(c, f.key, f.value)
      [] f.op = "Set" -> Set(c, f.key, f.value)
      [] f.op = "Get" -> Get(c, f.key)
      [] f.op = "Remove" -> Remove(c, f.key)

\* mutex.Lock that does not wait for the mutex to be free
Acquire_nowait(p) == mutex' = p

\* mutex.Lock that Set leaves out
Acquire_not_set(p) ==
    IF frame[p].op = "Set" THEN mutex' = mutex ELSE mutex = Nil /\ mutex' = p

\* mutex.Lock that Add leaves out
Acquire_not_add(p) ==
    IF frame[p].op = "Add" THEN mutex' = mutex ELSE mutex = Nil /\ mutex' = p

\* cache.mutex.Lock() by caller p: waits until the mutex is free
Acquire(p) == mutex = Nil /\ mutex' = p

\* mutex.Unlock left out
Release_keep(p) == mutex' = mutex

\* mutex.Unlock left out on the paths that return an error
Release_not_on_error(p) ==
    mutex' = IF frame[p].err # NoErr THEN mutex ELSE Nil

\* cache.mutex.Unlock() by caller p
Release(p) == mutex' = Nil

\* the number of elements the loop of SetSize removes, one too many
evictCount_more(len, n) == len - n + 1

\* n := cache.lruList.Len() - size
evictCount(len, n) == len - n

\* caller p goes on with frame f
Goto(p, f) == frame' = [frame EXCEPT ![p] = f]

\* a step of caller p that leaves the cache as it is
Local(p, f) ==
    /\ Goto(p, f)
    /\ UNCHANGED <<size, lruList, payload, itemMap, mutex, lin,
                   panicked, calls, touchSeq, shadow>>

\* a step of caller p that leaves the cache as c
Store(p, f, c) ==
    /\ Goto(p, f)
    /\ Install(c)
    /\ UNCHANGED <<mutex, lin, panicked, calls, touchSeq, shadow>>

InitConc ==
    \E n \in SizeArgs :
        /\ Constructed(n)
        /\ NoCalls
        /\ touchSeq = <<>>
        /\ shadow = New(0).cache
        /\ mutex = Nil
        /\ frame = [p \in Callers |-> IdleFrame]
        /\ lin = New(n).cache

\* caller p calls a method
Invoke(p) ==
    /\ ~panicked
    /\ frame[p].pc = "idle"
    /\ \E c \in CallSet :
        Local(p, [IdleFrame EXCEPT !.pc = "call", !.op = c.op, !.key = c.key,
                                   !.value = c.value, !.arg = c.arg])

\* SetSize: if size <= 0
SetSizeSkip(p) ==
    /\ frame[p].pc = "call"
    /\ frame[p].op = "SetSize"
    /\ frame[p].arg <= 0
    /\ Local(p, [frame[p] EXCEPT !.pc = "early"])

\* SetSize: the return of the size <= 0 branch
SetSizeReturn(p) ==
    /\ frame[p].pc = "early"
    /\ Goto(p, IdleFrame)
    /\ lin' = SeqOp(lin, frame[p]).cache
    /\ UNCHANGED <<size, lruList, payload, itemMap, mutex,
                   panicked, calls, touchSeq, shadow>>

\* cache.mutex.Lock() at the head of a method
Lock(p) ==
    /\ frame[p].pc = "call"
    /\ ~(frame[p].op = "SetSize" /\ frame[p].arg <= 0)
    /\ Acquire(p)
    /\ Goto(p, [frame[p] EXCEPT !.pc = "locked"])
    /\ UNCHANGED <<size, lruList, payload, itemMap, lin,
                   panicked, calls, touchSeq, shadow>>

\* Size: size = cache.size
ConcSize(p) ==
    /\ frame[p].pc = "locked"
    /\ frame[p].op = "Size"
    /\ Local(p, [frame[p] EXCEPT !.pc = "unlock", !.n = size])

\* Len: n = cache.lruList.Len()
ConcLen(p) ==
    /\ frame[p].pc = "locked"
    /\ frame[p].op = "Len"
    /\ Local(p, [frame[p] EXCEPT !.pc = "unlock", !.n = Len(lruList)])

\* Purge: the two assignments
ConcPurge(p) ==
    /\ frame[p].pc = "locked"
    /\ frame[p].op = "Purge"
    /\ Store(p, [frame[p] EXCEPT !.pc = "unlock"],
             [Cache EXCEPT !.lruList = ListNew, !.itemMap = <<>>, !.payload = <<>>])

\* SetSize: if n := cache.lruList.Len() - size; n > 0
ConcSetSizeTest(p) ==
    /\ frame[p].pc = "locked"
    /\ frame[p].op = "SetSize"
    /\ LET n == evictCount(Len(lruList), frame[p].arg) IN
       IF n > 0
       THEN Local(p, [frame[p] EXCEPT !.pc = "loop", !.i = n])
       ELSE Local(p, [frame[p] EXCEPT !.pc = "assign"])

\* SetSize: one turn of the loop, cache.remove(e) with e the back element
ConcSetSizeLoop(p) ==
    /\ frame[p].pc = "loop"
    /\ Store(p, [frame[p] EXCEPT !.pc = IF frame[p].i > 1 THEN "loop" ELSE "assign",
                                 !.i = frame[p].i - 1],
             remove(Cache, Back(lruList)))

\* SetSize: cache.size = size
ConcSetSizeAssign(p) ==
    /\ frame[p].pc = "assign"
    /\ Store(p, [frame[p] EXCEPT !.pc = "unlock", !.i = 0],
             [Cache EXCEPT !.size = frame[p].arg])

\* Add, Set, Get, Remove: e, hit := cache.itemMap[key]
ConcLookup(p) ==
    /\ frame[p].pc = "locked"
    /\ frame[p].op \in {"Add", "Set", "Get", "Remove"}
    /\ LET hit == frame[p].key \in DOMAIN itemMap IN
       Local(p, [frame[p] EXCEPT !.pc = "branch", !.hit = hit,
                                 !.e = IF hit THEN itemMap[frame[p].key] ELSE Nil])

\* Add: the two branches
ConcAdd(p) ==
    /\ frame[p].pc = "branch"
    /\ frame[p].op = "Add"
    /\ IF frame[p].hit
       THEN Local(p, [frame[p] EXCEPT !.pc = "unlock", !.err = ErrNotStored])
       ELSE Store(p, [frame[p] EXCEPT !.pc = "unlock", !.err = NoErr],
                  add(Cache, frame[p].key, frame[p].value))

\* Set: the two branches
ConcSet(p) ==
    /\ frame[p].pc = "branch"
    /\ frame[p].op = "Set"
    /\ IF frame[p].hit
       THEN Store(p, [frame[p] EXCEPT !.pc = "unlock"],
                  [Cache EXCEPT !.payload = [@ EXCEPT ![frame[p].e].Value = frame[p].value],
                                !.lruList = MoveToFront(@, frame[p].e)])
       ELSE Store(p, [frame[p] EXCEPT !.pc = "unlock", !.err = NoErr],
                  add(Cache, frame[p].key, frame[p].value))

\* Get: the two branches
ConcGet(p) ==
    /\ frame[p].pc = "branch"
    /\ frame[p].op = "Get"
    /\ IF frame[p].hit
       THEN Store(p, [frame[p] EXCEPT !.pc = "unlock", !.ret = payload[frame[p].e].Value],
                  [Cache EXCEPT !.lruList = MoveToFront(@, frame[p].e)])
       ELSE Local(p, [frame[p] EXCEPT !.pc = "unlock", !.err = ErrNotFound])

\* Remove: the two branches
ConcRemove(p) ==
    /\ frame[p].pc = "branch"
    /\ frame[p].op = "Remove"
    /\ IF frame[p].hit
       THEN Store(p, [frame[p] EXCEPT !.pc = "unlock"], remove(Cache, frame[p].e))
       ELSE Local(p, [frame[p] EXCEPT !.pc = "unlock", !.err = ErrNotFound])

\* cache.mutex.Unlock() and the return; the call takes effect on lin here
Unlock(p) ==
    /\ frame[p].pc = "unlock"
    /\ Release(p)
    /\ Goto(p, IdleFrame)
    /\ lin' = SeqOp(lin, frame[p]).cache
    /\ UNCHANGED <<size, lruList, payload, itemMap,
                   panicked, calls, touchSeq, shadow>>

\* the steps of caller p inside a call
Progress(p) ==
    \/ SetSizeSkip(p)
    \/ SetSizeReturn(p)
    \/ Lock(p)
    \/ ConcSize(p)
    \/ ConcLen(p)
    \/ ConcPurge(p)
    \/ ConcSetSizeTest(p)
    \/ ConcSetSizeLoop(p)
    \/ ConcSetSizeAssign(p)
    \/ ConcLookup(p)
    \/ ConcAdd(p)
    \/ ConcSet(p)
    \/ ConcGet(p)
    \/ ConcRemove(p)
    \/ Unlock(p)

NextConc == \E p \in Callers : Invoke(p) \/ Progress(p)

SpecConc == InitConc /\ [][NextConc]_vars

\* the scheduler runs every caller that can step, and a caller that finds the
\* mutex free again and again gets it
SpecConcFair ==
    /\ InitConc
    /\ [][NextConc]_vars
    /\ \A p \in Callers : WF_vars(Progress(p)) /\ SF_vars(Lock(p))

\* ---------------------------------------------------------------- claims
\* what the calls of the public interface show of the cache
NowLen == CacheLen(Cache).n
NowSize == Size(Cache).n
NowEntries == Entries(Cache)

\* the entry a call Set(k, v) or Add(k, v) stores
Entry(k, v) == [Key |-> k, Value |-> v]

\* the value the entries es hold for key k
ValueIn(es, k) == es[CHOOSE i \in DOMAIN es : es[i].Key = k].Value

\* the last call was a Set or an Add of a key that was absent when it began
Inserted == last.op \in {"Set", "Add"} /\ last.key \notin pre.keys

\* the cache held as many entries as its capacity when the last call began
WasFull == Len(pre.entries) = pre.size

\* C1: in every state reached from New(size), size >= 1, by Get, Set, Add,
\* Remove, SetSize and Purge calls with any arguments, the recency list is as
\* long as the index has keys, and Len() <= Size().
C1_LenIndexSize ==
    ~panicked =>
        /\ Len(lruList) = Cardinality(DOMAIN itemMap)
        /\ NowLen = Cardinality(DOMAIN itemMap)
        /\ NowLen <= NowSize

\* a full cache of MaxSize entries that has just taken one more key
C1_Witness ==
    /\ Inserted
    /\ WasFull
    /\ NowLen = MaxSize
    /\ NowSize = MaxSize

\* C2: a Set or Add that inserts an absent key while Len() = Size() removes
\* exactly the entry at the tail of the list, every other entry keeps its key
\* and value, and Len() is unchanged; while Len() < Size() it removes nothing.
C2_Eviction ==
    Inserted =>
        LET n == Len(pre.entries) IN
        IF WasFull
        THEN /\ NowLen = n
             /\ NowEntries = <<Entry(last.key, last.value)>> \o SubSeq(pre.entries, 1, n - 1)
             /\ pre.entries[n].Key \notin DOMAIN itemMap
             /\ \A i \in 1..(n - 1) : pre.entries[i].Key \in DOMAIN itemMap
        ELSE /\ n < pre.size
             /\ NowLen = n + 1
             /\ NowEntries = <<Entry(last.key, last.value)>> \o pre.entries

\* an insertion into a full cache of two entries: the tail went, the head stayed
C2_Witness ==
    /\ Inserted
    /\ WasFull
    /\ Len(pre.entries) = 2
    /\ pre.entries[2].Key \notin DOMAIN itemMap
    /\ pre.entries[1].Key \in DOMAIN itemMap

\* C3: the keys present, read from head to tail, are in the order of their
\* last touch, latest first, a touch being a Get hit, any Set or an inserting
\* Add; no other call reorders the surviving entries.
C3_TouchOrder ==
    LET ks == KeysOf(NowEntries) IN
    ks = SelectSeq(touchSeq, LAMBDA k : k \in Range(ks))

\* two entries of which the older element is in front (a touch reordered
\* them), and a touched key that is no longer in the cache
C3_Witness ==
    /\ Len(lruList) = 2
    /\ lruList[1] < lruList[2]
    /\ \E k \in Range(touchSeq) : k \notin DOMAIN itemMap
    /\ Len(touchSeq) = NumKeys

\* C4: each key of the index refers to a linked element that stores this key,
\* each linked element is the one the index holds for its stored key, and no
\* two linked elements store the same key; also after a reuse of the tail.
C4_IndexConsistent ==
    /\ \A k \in DOMAIN itemMap :
        /\ itemMap[k] \in Range(lruList)
        /\ itemMap[k] \in DOMAIN payload
        /\ payload[itemMap[k]].Key = k
    /\ \A i \in DOMAIN lruList :
        /\ lruList[i] \in DOMAIN payload
        /\ payload[lruList[i]].Key \in DOMAIN itemMap
        /\ itemMap[payload[lruList[i]].Key] = lruList[i]
    /\ \A i, j \in DOMAIN lruList :
        i # j => /\ lruList[i] # lruList[j]
                 /\ payload[lruList[i]].Key # payload[lruList[j]].Key

\* the tail element was reused: the new key is indexed to the front element
\* and the key the element stored before is gone from the index
C4_Witness ==
    /\ Inserted
    /\ WasFull
    /\ itemMap[last.key] = lruList[1]
    /\ payload[lruList[1]].Key = last.key
    /\ pre.entries[Len(pre.entries)].Key \notin DOMAIN itemMap
    /\ Len(lruList) = Len(pre.entries)

\* the last call stored a value for its key: a Set, or an Add that inserted
Wrote == last.op = "Set" \/ (last.op = "Add" /\ last.err = NoErr)

\* a key that was absent when the last call began is present only when that
\* call was a Set or an Add of this key
AbsentUntilInserted ==
    \A k \in DOMAIN itemMap \ pre.keys : last.op \in {"Set", "Add"} /\ last.key = k

\* C5: a Get(k) right after Set(k, v) hits and returns v, at every capacity
\* and also when the Set evicted; a Get(k) hit returns the value of the latest
\* Set(k, .) or inserting Add(k, .): such a call stores its value, no other
\* call changes the value a key holds, and Get returns the value the key holds.
C5_SetThenGet ==
    /\ Wrote =>
        /\ Get(Cache, last.key).err = NoErr
        /\ Get(Cache, last.key).value = last.value
    /\ (last.op = "Get" /\ last.err = NoErr) =>
        /\ last.key \in pre.keys
        /\ last.ret = ValueIn(pre.entries, last.key)
    /\ AbsentUntilInserted
    /\ \A k \in DOMAIN itemMap :
        ~(Wrote /\ last.key = k) =>
            /\ k \in pre.keys
            /\ Get(Cache, k).err = NoErr
            /\ Get(Cache, k).value = ValueIn(pre.entries, k)

\* a Set into a full cache of capacity 1 whose only element held another key
\* and another value: the Set reused that element
C5_Witness ==
    /\ last.op = "Set"
    /\ NowSize = 1
    /\ WasFull
    /\ last.key \notin pre.keys
    /\ pre.entries[1].Value # last.value
    /\ Get(Cache, last.key).value = last.value

\* C6: Add(k, v) returns ErrNotStored exactly when k is present and changes
\* nothing then; it returns nil exactly when k is absent and then k is at the
\* head with value v; a second Add(k, v2) right after an inserting Add(k, v)
\* returns ErrNotStored and Get(k) still returns v.
C6_Add ==
    last.op = "Add" =>
        /\ last.err \in {NoErr, ErrNotStored}
        /\ last.err = ErrNotStored <=> last.key \in pre.keys
        /\ last.err = NoErr <=> last.key \notin pre.keys
        /\ last.err = ErrNotStored =>
            /\ NowEntries = pre.entries
            /\ DOMAIN itemMap = pre.keys
            /\ NowSize = pre.size
        /\ last.err = NoErr =>
            /\ NowEntries[1] = Entry(last.key, last.value)
            /\ last.key \in DOMAIN itemMap
            /\ \A v2 \in Values :
                LET second == Add(Cache, last.key, v2) IN
                    /\ second.err = ErrNotStored
                    /\ Get(second.cache, last.key).err = NoErr
                    /\ Get(second.cache, last.key).value = last.value

\* an Add of a present key, with another value than the one the key holds
C6_Witness ==
    /\ last.op = "Add"
    /\ last.err = ErrNotStored
    /\ last.key \in DOMAIN itemMap
    /\ Get(Cache, last.key).value # last.value

\* C7: Remove(k) returns nil exactly when k is present and ErrNotFound exactly
\* when k is absent; after it Get(k) and Remove(k) return ErrNotFound, and k
\* stays absent until a Set or Add of k.
C7_Remove ==
    /\ last.op = "Remove" =>
        /\ last.err \in {NoErr, ErrNotFound}
        /\ last.err = NoErr <=> last.key \in pre.keys
        /\ last.err = ErrNotFound <=> last.key \notin pre.keys
        /\ last.key \notin DOMAIN itemMap
        /\ Get(Cache, last.key).err = ErrNotFound
        /\ Get(Cache, last.key).value = Nil
        /\ Remove(Cache, last.key).err = ErrNotFound
    /\ AbsentUntilInserted
    /\ \A k \in Keys \ DOMAIN itemMap :
        /\ Get(Cache, k).err = ErrNotFound
        /\ Remove(Cache, k).err = ErrNotFound

\* a Remove that took the head key out of a cache of two entries
C7_Witness ==
    /\ last.op = "Remove"
    /\ last.err = NoErr
    /\ Len(pre.entries) = 2
    /\ pre.entries[1].Key = last.key
    /\ NowLen = 1
    /\ Remove(Cache, last.key).err = ErrNotFound

C9_SetSizeNonPositive ==
    (last.op = "SetSize" /\ last.arg <= 0) =>
        /\ NowSize = pre.size
        /\ NowLen = Len(pre.entries)
        /\ NowEntries = pre.entries
        /\ DOMAIN itemMap = pre.keys
        /\ last.err = NoErr
        /\ ~panicked

\* SetSize(0) and SetSize(-1) on a cache that holds entries
C9_Witness ==
    /\ last.op = "SetSize"
    /\ last.arg <= 0
    /\ Len(pre.entries) >= 1
    /\ NowLen >= 1

\* the cache after Add(k, v) for each key k of ks in turn
RECURSIVE Fill(_, _, _)
Fill(c, ks, v) ==
    IF ks = <<>> THEN c ELSE Fill(Add(c, Head(ks), v).cache, Tail(ks), v)

\* the sequences of n distinct keys
DistinctKeys(n) ==
    {ks \in [1..n -> Keys] : \A i, j \in 1..n : i # j => ks[i] # ks[j]}

\* the smaller of two numbers
Min(a, b) == IF a < b THEN a ELSE b

\* C10: after Purge Len() = 0 and Size() is what it was; Get and Remove of
\* every key return ErrNotFound, and a key stays absent until it is inserted
\* again; the cache then takes Size() insertions of distinct keys and keeps
\* them all.
C10_Purge ==
    /\ last.op = "Purge" =>
        /\ NowLen = 0
        /\ DOMAIN itemMap = {}
        /\ NowSize = pre.size
        /\ last.err = NoErr
        /\ \A k \in Keys :
            /\ Get(Cache, k).err = ErrNotFound
            /\ Remove(Cache, k).err = ErrNotFound
        /\ \A ks \in DistinctKeys(Min(NowSize, NumKeys)), v \in Values :
            LET c == Fill(Cache, ks, v) IN
                /\ DOMAIN c.itemMap = Range(ks)
                /\ Len(c.lruList) = Len(ks)
                /\ KeysOf(Entries(c)) = [i \in 1..Len(ks) |-> ks[Len(ks) + 1 - i]]
    /\ AbsentUntilInserted

\* a Purge of a full cache of two entries
C10_Witness ==
    /\ last.op = "Purge"
    /\ Len(pre.entries) = 2
    /\ pre.size = 2
    /\ NowLen = 0
    /\ NowSize = 2

\* the last call left the capacity, the entries, their order and the index alone
Untouched ==
    /\ NowSize = pre.size
    /\ NowEntries = pre.entries
    /\ DOMAIN itemMap = pre.keys

\* the entries es without the one of key k
Without(es, k) == SelectSeq(es, LAMBDA x : x.Key # k)

\* C14: a call that returns an error (Get or Remove of an absent key, Add of
\* a present key) leaves keys, values, order and capacity as they were; after
\* every call the list and the index hold the same keys.
C14_NoPartialFailure ==
    /\ last.err # NoErr =>
        /\ \/ last.op \in {"Get", "Remove"} /\ last.err = ErrNotFound
           \/ last.op = "Add" /\ last.err = ErrNotStored
        /\ Untouched
    /\ Range(KeysOf(NowEntries)) = DOMAIN itemMap
    /\ Len(lruList) = Cardinality(DOMAIN itemMap)

\* an Add of the key at the tail of a cache of two entries, refused
C14_Witness ==
    /\ last.op = "Add"
    /\ last.err = ErrNotStored
    /\ Len(pre.entries) = 2
    /\ pre.entries[2].Key = last.key
    /\ NowEntries = pre.entries

\* C15: New panics for size <= 0 and SetSize ignores n <= 0, so the capacity
\* of a cache is >= 1 in every state and Size() returns it; whenever the list
\* is as long as the capacity (the branch of add that reuses the tail) the
\* list is not empty and its tail element exists.
C15_CapacityPositive ==
    /\ last.op = "New" => (panicked <=> last.arg <= 0)
    /\ ~panicked =>
        /\ size >= 1
        /\ NowSize = size
        /\ Len(lruList) >= size =>
            /\ Len(lruList) >= 1
            /\ Back(lruList) # Nil
            /\ Back(lruList) \in DOMAIN payload
    /\ (Inserted /\ WasFull) =>
        /\ Len(pre.entries) >= 1
        /\ pre.size >= 1

\* an insertion into a full cache of capacity 1, made so by SetSize or New
C15_Witness ==
    /\ Inserted
    /\ WasFull
    /\ pre.size = 1
    /\ NowSize = 1
    /\ NowLen = 1

\* C16: Set always returns nil; on a present key it stores the value and
\* moves the entry to the head, evicts nothing and leaves Len() alone, also
\* when the cache is full; on an absent key it inserts at the head and evicts
\* the tail first exactly when Len() >= Size().
C16_SetUpsert ==
    last.op = "Set" =>
        LET n == Len(pre.entries)
            new == Entry(last.key, last.value)
        IN
        /\ last.err = NoErr
        /\ NowSize = pre.size
        /\ last.key \in pre.keys =>
            /\ NowLen = n
            /\ DOMAIN itemMap = pre.keys
            /\ NowEntries = <<new>> \o Without(pre.entries, last.key)
        /\ (last.key \notin pre.keys /\ n >= pre.size) =>
            NowEntries = <<new>> \o SubSeq(pre.entries, 1, n - 1)
        /\ (last.key \notin pre.keys /\ n < pre.size) =>
            NowEntries = <<new>> \o pre.entries

\* a Set of the tail key of a full cache of two entries, with a new value
C16_Witness ==
    /\ last.op = "Set"
    /\ WasFull
    /\ Len(pre.entries) = 2
    /\ pre.entries[2].Key = last.key
    /\ pre.entries[2].Value # last.value
    /\ NowLen = 2

Seen(r) == <<r.value, r.err, r.n>>

\* C17: add reusing the tail element and add pushing a newly allocated one
\* after removing the tail cannot be told apart: run side by side over any
\* calls, the two caches hold the same keys, values and order, the same
\* Len() and Size(), and every call returns the same on both.
C17_ReuseIsFresh ==
    ~panicked =>
    /\ Entries(Cache) = Entries(shadow)
    /\ DOMAIN itemMap = DOMAIN shadow.itemMap
    /\ Seen(CacheLen(Cache)) = Seen(CacheLen(shadow))
    /\ Seen(Size(Cache)) = Seen(Size(shadow))
    /\ \A k \in Keys :
        /\ Seen(Get(Cache, k)) = Seen(Get(shadow, k))
        /\ Seen(Remove(Cache, k)) = Seen(Remove(shadow, k))
        /\ \A v \in Values :
            /\ Seen(Add(Cache, k, v)) = Seen(AddFresh(shadow, k, v))
            /\ Seen(Set(Cache, k, v)) = Seen(SetFresh(shadow, k, v))
            /\ Entries(Add(Cache, k, v).cache) = Entries(AddFresh(shadow, k, v).cache)
            /\ Entries(Set(Cache, k, v).cache) = Entries(SetFresh(shadow, k, v).cache)

\* two full caches whose elements differ: one reused its tail, the other
\* allocated
C17_Witness ==
    /\ Len(lruList) = 2
    /\ size = 2
    /\ lruList # shadow.lruList
    /\ Entries(Cache) = Entries(shadow)

\* caller p is past mutex.Lock and before the end of mutex.Unlock
Inside(p) == frame[p].pc \in {"locked", "branch", "loop", "assign", "unlock"}

\* what the caller of frame f gets back
Returned(f) == <<f.ret, f.err, f.n>>

\* C19: at most one caller at a time is between Lock and Unlock, and a caller
\* whose next step reads or writes the capacity, the list or the index holds
\* the mutex; no other caller changes them meanwhile.
C19_MutualExclusion ==
    /\ \A p, q \in Callers : Inside(p) /\ Inside(q) => p = q
    /\ \A p \in Callers : Inside(p) <=> mutex = p
    /\ \A p \in Callers :
        frame[p].pc \in {"call", "early", "idle"} =>
            ~ENABLED (\/ ConcSize(p) \/ ConcLen(p) \/ ConcPurge(p) \/ ConcSetSizeTest(p)
                      \/ ConcSetSizeLoop(p) \/ ConcSetSizeAssign(p) \/ ConcLookup(p)
                      \/ ConcAdd(p) \/ ConcSet(p) \/ ConcGet(p) \/ ConcRemove(p))

\* one caller is inside Set while the other waits for the mutex
C19_Witness ==
    \E p, q \in Callers :
        /\ frame[p].pc = "branch"
        /\ frame[p].op = "Set"
        /\ frame[q].pc = "call"
        /\ frame[q].op = "Remove"
        /\ frame[q].key = frame[p].key

\* C12 as stated: every public operation acquires the mutex at entry, the
\* early return of SetSize included: a caller past the entry of its call
\* holds the mutex until it returns.
C12_EveryCallLocks ==
    \A p \in Callers : frame[p].pc \notin {"idle", "call"} => mutex = p

\* C12, amended: every public operation except SetSize(n) with n <= 0 acquires
\* the mutex at entry and holds it until it releases it right before
\* returning, on the error paths too; SetSize(n) with n <= 0 returns without
\* acquiring it. No caller outside a call or at the entry of one holds the
\* mutex, and the mutex is free whenever no operation is in progress.
C12_LockScope ==
    /\ \A p \in Callers :
        frame[p].pc \notin {"idle", "call"} =>
            \/ mutex = p
            \/ /\ frame[p].pc = "early"
               /\ frame[p].op = "SetSize"
               /\ frame[p].arg <= 0
    /\ \A p \in Callers : frame[p].pc = "early" => mutex # p
    /\ \A p \in Callers : frame[p].pc \in {"idle", "call"} => mutex # p
    /\ (\A p \in Callers : frame[p].pc = "idle") => mutex = Nil
    /\ \A p \in Callers :
        frame[p].op = "SetSize" /\ frame[p].arg <= 0 => ~Inside(p)

\* a Get or Remove miss about to unlock while the other caller is on the
\* early return of SetSize
C12_Witness ==
    \E p, q \in Callers :
        /\ frame[p].pc = "unlock"
        /\ frame[p].err = ErrNotFound
        /\ mutex = p
        /\ frame[q].pc = "early"

\* C11: the calls of concurrent callers are linearizable. lin is the cache of
\* a sequential execution in which every call is made alone, in the order in
\* which the calls reach their Unlock (the return, for SetSize(n), n <= 0), a
\* point between invocation and return. Every call returns what it returns
\* in that execution and leaves the cache that execution leaves.
C11_Linearizable ==
    /\ mutex = Nil => Cache = lin
    /\ \A p \in Callers :
        frame[p].pc = "unlock" =>
            /\ SeqOp(lin, frame[p]).cache = Cache
            /\ Seen(SeqOp(lin, frame[p])) = Returned(frame[p])
    /\ \A p \in Callers :
        frame[p].pc = "early" =>
            /\ SeqOp(lin, frame[p]).cache = lin
            /\ Seen(SeqOp(lin, frame[p])) = Returned(frame[p])

\* a Get that hit is about to return while a Remove of the same key, called
\* before the Get returns, waits for the mutex
C11_Witness ==
    \E p, q \in Callers :
        /\ frame[p].pc = "unlock"
        /\ frame[p].op = "Get"
        /\ frame[p].err = NoErr
        /\ frame[p].ret \in Values
        /\ frame[q].pc = "call"
        /\ frame[q].op = "Remove"
        /\ frame[q].key = frame[p].key
        /\ Len(lruList) = 2

\* C20: Add inserts if absent, atomically. An Add(k, v) finds k absent exactly
\* when no call that took effect before it left k in the cache; it then
\* returns nil with (k, v) stored at the head, else it returns ErrNotStored
\* and changes nothing. Of the callers that Add the same absent key at the
\* same time one returns nil, and each of the others, taking effect next,
\* returns ErrNotStored and leaves the value of the one that succeeded.
C20_AtomicAdd ==
    \A p \in Callers :
        frame[p].op = "Add" =>
            /\ frame[p].pc = "branch" =>
                /\ frame[p].hit <=> frame[p].key \in DOMAIN lin.itemMap
                /\ Cache = lin
            /\ frame[p].pc = "unlock" =>
                /\ frame[p].err =
                     IF frame[p].key \in DOMAIN lin.itemMap THEN ErrNotStored ELSE NoErr
                /\ frame[p].err = ErrNotStored => Cache = lin
                /\ frame[p].err = NoErr =>
                    /\ Len(lruList) > 0
                    /\ NowEntries[1] = Entry(frame[p].key, frame[p].value)
                    /\ \A q \in Callers \ {p} :
                        frame[q].op = "Add" /\ frame[q].key = frame[p].key
                        => /\ frame[q].pc = "call"
                           /\ Add(Cache, frame[q].key, frame[q].value).err = ErrNotStored
                           /\ Add(Cache, frame[q].key, frame[q].value).cache = Cache

\* two callers Add the same absent key with different values at the same
\* time; one is about to return nil, the other waits for the mutex
C20_Witness ==
    \E p, q \in Callers :
        /\ frame[p].pc = "unlock"
        /\ frame[p].op = "Add"
        /\ frame[p].err = NoErr
        /\ frame[q].pc = "call"
        /\ frame[q].op = "Add"
        /\ frame[q].key = frame[p].key
        /\ frame[q].value # frame[p].value

\* a caller waits for the mutex
Waiting == \E p \in Callers : frame[p].pc = "call"

\* no caller waits for the mutex while no caller can take a step of its call
C13_NoDeadlock == Waiting => ENABLED (\E q \in Callers : Progress(q))

\* the loop of SetSize has removed, when it stops, the Len() - n entries by
\* which the cache it began with exceeded n, and while it runs the turns left
\* are the entries still in excess
C13_LoopCount ==
    \A p \in Callers :
        /\ frame[p].pc = "loop" =>
            /\ frame[p].i > 0
            /\ frame[p].i = Len(lruList) - frame[p].arg
        /\ frame[p].pc = "assign" =>
            /\ frame[p].i = 0
            /\ Len(lin.lruList) - Len(lruList) =
                 IF Len(lin.lruList) > frame[p].arg
                 THEN Len(lin.lruList) - frame[p].arg ELSE 0

====
